---- MODULE Spec2Model ----
(***************************************************************************)
(* A model of src/bin/read_xlsx.py: the XLSX reader command-line tool.     *)
(*                                                                         *)
(* The workbook loader (openpyxl's load_workbook) is the environment: a    *)
(* file on disk is missing, unreadable, or a workbook, i.e. an ordered     *)
(* list of titled sheets, each a rectangular grid of cell values with at   *)
(* least one row and one column (openpyxl reports max_row >= 1 and         *)
(* max_column >= 1 even for a blank sheet).                                *)
(*                                                                         *)
(* Python values are modelled by strings.  None, 0 and datetime get marker *)
(* strings that differ from every text value the model uses.               *)
(***************************************************************************)
EXTENDS Integers, Sequences, FiniteSets, TLC

VARIABLES
    argv,              \* sys.argv, argv[1] being sys.argv[0]
    pc,                \* position of the process / of the caller
    i,                 \* index of the argument loop (Python, 0-based)
    filename,          \* the arguments and option variables of __main__,
    sheet_name,        \*   also the arguments of a direct call
    output_json,
    all_sheets_json,
    list_sheets_only,
    csv_output,
    output_file,
    fn,                \* the function a direct caller has called
    disk,              \* what load_workbook(filename) finds
    outfile,           \* the file named by output_file
    stdout,            \* the lines printed so far
    ret,               \* the value returned to a direct caller
    status             \* exit status of the process; None while it runs

vars == <<argv, pc, i, filename, sheet_name, output_json, all_sheets_json,
          list_sheets_only, csv_output, output_file, fn, disk, outfile,
          stdout, ret, status>>

(***************************************************************************)
(* Bounds                                                                  *)
(***************************************************************************)
MaxArgs == 4        \* arguments after the program name
MaxRows == 2        \* rows of a sheet (row 1 included)
MaxCols == 2        \* columns of a sheet

(***************************************************************************)
(* Python values                                                           *)
(***************************************************************************)
None == "<None>"
EmptyStr == ""
Zero == "<0>"
DateV == "<datetime>"

\* Truth value of a cell value or of an optional string argument.
Truthy(v) == v \notin {None, EmptyStr, Zero}

\* any(row)
PyAny(row) == \E k \in DOMAIN row : Truthy(row[k])

(***************************************************************************)
(* The loader                                                              *)
(***************************************************************************)
NoBook == [sheets |-> <<>>, active |-> 0]

NoSheet == [title |-> None, rows |-> <<>>]

\* wb.sheetnames
sheetnames(wb) == [k \in 1..Len(wb.sheets) |-> wb.sheets[k].title]

\* sheet_name in wb.sheetnames
InSheetnames(name, wb) == \E k \in 1..Len(wb.sheets) : wb.sheets[k].title = name

\* wb[sheet_name]
SheetByName(wb, name) ==
    wb.sheets[CHOOSE k \in 1..Len(wb.sheets) : wb.sheets[k].title = name]

\* wb.active or wb.worksheets[0]
ActiveSheet(wb) == wb.sheets[wb.active]

\* load_workbook(filename): the workbook, or the exception it raises.
load_workbook(file) ==
    CASE file.kind = "missing" -> [exc |-> "FileNotFoundError", wb |-> NoBook]
      [] file.kind = "corrupt" -> [exc |-> "InvalidFileException", wb |-> NoBook]
      [] OTHER -> [exc |-> None, wb |-> file.wb]

\* A plausible slip: an unknown name falls back to the active sheet.
SelectSheet_fallback(wb, name) ==
    IF Truthy(name) /\ InSheetnames(name, wb)
    THEN [found |-> TRUE, sheet |-> SheetByName(wb, name)]
    ELSE [found |-> TRUE, sheet |-> ActiveSheet(wb)]

\* if sheet_name: (if sheet_name in wb.sheetnames: ... else: not found) else: active
\* The same lines select the sheet in read_xlsx_file (29-36),
\* convert_xlsx_to_csv (71-78) and read_xlsx_to_dict (115-122).
SelectSheet(wb, name) ==
    IF Truthy(name)
    THEN IF InSheetnames(name, wb)
         THEN [found |-> TRUE, sheet |-> SheetByName(wb, name)]
         ELSE [found |-> FALSE, sheet |-> NoSheet]
    ELSE [found |-> TRUE, sheet |-> ActiveSheet(wb)]

\* The "Sheet ... not found" diagnostic the three readers print.
NotFoundLine(name, wb) ==
    [kind |-> "sheet_not_found", sheet_name |-> name, available |-> sheetnames(wb)]

(***************************************************************************)
(* read_xlsx_to_dict                                                       *)
(***************************************************************************)
\* A plausible slip: the label counts the labels synthesized so far.
HeaderLabel_counted(value, headers) ==
    LET synthesized == { k \in DOMAIN headers :
                           \E n \in DOMAIN headers : headers[k] = "Column_" \o ToString(n) }
    IN  IF Truthy(value) THEN value
        ELSE "Column_" \o ToString(Cardinality(synthesized) + 1)

\* cell.value if cell.value else f"Column_{len(headers)+1}"
HeaderLabel(value, headers) ==
    IF Truthy(value) THEN value ELSE "Column_" \o ToString(Len(headers) + 1)

RECURSIVE HeadersLoop(_, _)
\* for cell in sheet[1]: headers.append(...)
HeadersLoop(cells, headers) ==
    IF cells = <<>> THEN headers
    ELSE HeadersLoop(Tail(cells), Append(headers, HeaderLabel(Head(cells), headers)))

\* A plausible slip: the first column of a label keeps its value (setdefault).
SetItem_first(d, key, value) ==
    [x \in DOMAIN d \cup {key} |-> IF x \in DOMAIN d THEN d[x] ELSE value]

\* row_dict[key] = value
SetItem(d, key, value) ==
    [x \in DOMAIN d \cup {key} |-> IF x = key THEN value ELSE d[x]]

RECURSIVE RowDictLoop(_, _, _, _)
\* for i, value in enumerate(row): if i < len(headers): row_dict[headers[i]] = value
RowDictLoop(headers, row, n, row_dict) ==
    IF n >= Len(row) THEN row_dict
    ELSE RowDictLoop(headers, row, n + 1,
                     IF n < Len(headers)
                     THEN SetItem(row_dict, headers[n + 1], row[n + 1])
                     ELSE row_dict)

RECURSIVE DataLoop(_, _, _)
\* for row in sheet.iter_rows(min_row=2, values_only=True): if any(row): ...
DataLoop(headers, rows, data) ==
    IF rows = <<>> THEN data
    ELSE DataLoop(headers, Tail(rows),
                  IF PyAny(Head(rows))
                  THEN Append(data, RowDictLoop(headers, Head(rows), 0, <<>>))
                  ELSE data)

\* The data rows read under the headers just derived; return headers, data.
Records(headers, sheet) ==
    [exc |-> None, headers |-> headers,
     data |-> DataLoop(headers, SubSeq(sheet.rows, 2, Len(sheet.rows)), <<>>),
     out |-> <<>>]

\* The headers and records of the selected sheet.
Tabulate(sheet) == Records(HeadersLoop(sheet.rows[1], <<>>), sheet)

\* After sheet selection: the not-found return, or the table of the sheet.
dict_selected(sel, wb, name) ==
    IF ~sel.found
    THEN [exc |-> None, headers |-> <<>>, data |-> <<>>,
          out |-> <<NotFoundLine(name, wb)>>]
    ELSE Tabulate(sel.sheet)

\* After load_workbook: its exception, or the selection and what follows.
dict_loaded(l, name) ==
    IF l.exc # None
    THEN [exc |-> l.exc, headers |-> <<>>, data |-> <<>>, out |-> <<>>]
    ELSE dict_selected(SelectSheet(l.wb, name), l.wb, name)

\* The try block of read_xlsx_to_dict.
read_xlsx_to_dict_try(file, name) == dict_loaded(load_workbook(file), name)

\* except Exception as e: print(...); return [], []
dict_except(r) ==
    IF r.exc # None
    THEN [exc |-> None, headers |-> <<>>, data |-> <<>>,
          out |-> <<[kind |-> "error_processing", exc |-> r.exc]>>]
    ELSE r

\* A plausible slip: no except clause, the exception leaves the function.
read_xlsx_to_dict_raising(file, name) == read_xlsx_to_dict_try(file, name)

\* read_xlsx_to_dict(filename, sheet_name): try block plus "except Exception".
read_xlsx_to_dict(file, name) == dict_except(read_xlsx_to_dict_try(file, name))

(***************************************************************************)
(* json.dumps(obj, indent=indent, default=str)                             *)
(***************************************************************************)
\* A value as json.dumps writes it: default=str turns a datetime into text.
json_value(v) == IF v = DateV THEN "str(<datetime>)" ELSE v

\* A dict key json.dumps accepts (str, int, float, bool or None); default= is
\* not consulted for keys, so a datetime key raises TypeError.
json_key_ok(key) == key # DateV

json_record(row_dict) == [key \in DOMAIN row_dict |-> json_value(row_dict[key])]

json_list(values) == [k \in DOMAIN values |-> json_value(values[k])]

json_data(data) == [k \in DOMAIN data |-> json_record(data[k])]

data_keys_ok(data) ==
    \A k \in DOMAIN data : \A key \in DOMAIN data[k] : json_key_ok(key)

\* sheet_name or "default"
sheet_label(name) == IF Truthy(name) THEN name ELSE "default"

(***************************************************************************)
(* read_xlsx_to_json                                                       *)
(***************************************************************************)
\* result = {...}; return json.dumps(result, ...), given headers, data = t
json_result(t, path, name) ==
    IF t.exc # None
    THEN [exc |-> t.exc, json |-> <<>>, out |-> t.out]
    ELSE IF ~data_keys_ok(t.data)
    THEN [exc |-> "TypeError", json |-> <<>>, out |-> t.out]
    ELSE [exc |-> None,
          json |-> [filename |-> path,
                    sheet_name |-> sheet_label(name),
                    headers |-> json_list(t.headers),
                    data |-> json_data(t.data),
                    row_count |-> Len(t.data),
                    column_count |-> Len(t.headers)],
          out |-> t.out]

\* The try block of read_xlsx_to_json: the JSON object, or the exception.
read_xlsx_to_json_try(path, file, name) ==
    json_result(read_xlsx_to_dict(file, name), path, name)

\* except Exception as e: return json.dumps(error_result, ...)
json_except(r, path, name) ==
    IF r.exc # None
    THEN [exc |-> None,
          json |-> [error |-> "Error converting to JSON",
                    filename |-> path,
                    sheet_name |-> sheet_label(name)],
          out |-> r.out]
    ELSE r

\* read_xlsx_to_json(filename, sheet_name): try block plus "except Exception".
read_xlsx_to_json(path, file, name) ==
    json_except(read_xlsx_to_json_try(path, file, name), path, name)

(***************************************************************************)
(* read_all_sheets_to_json                                                 *)
(***************************************************************************)
\* result["sheets"][sheet_name] = {...}, given headers, data = t
entry_of(t) ==
    [headers |-> t.headers, data |-> t.data,
     row_count |-> Len(t.data), column_count |-> Len(t.headers),
     exc |-> t.exc, out |-> t.out]

\* The loop over wb.sheetnames: one read_xlsx_to_dict call per name, in order.
sheet_entries(file, names) ==
    [k \in DOMAIN names |-> entry_of(read_xlsx_to_dict(file, names[k]))]

RECURSIVE entries_out(_)
\* What the read_xlsx_to_dict calls of the loop print, in order.
entries_out(entries) ==
    IF entries = <<>> THEN <<>>
    ELSE Head(entries).out \o entries_out(Tail(entries))

\* The sheets mapping as json.dumps writes it; a later entry of a name wins.
sheets_json(entries, names) ==
    [s \in { names[k] : k \in DOMAIN names } |->
        LET e == entries[CHOOSE k \in DOMAIN names :
                            /\ names[k] = s
                            /\ \A m \in DOMAIN names : names[m] = s => m <= k]
        IN  [headers |-> json_list(e.headers),
             data |-> json_data(e.data),
             row_count |-> e.row_count,
             column_count |-> e.column_count]]

\* After the loop: return json.dumps(result, ...)
all_sheets_result(entries, names, path) ==
    IF \E k \in DOMAIN entries : entries[k].exc # None
    THEN [exc |-> "Exception", json |-> <<>>, out |-> entries_out(entries)]
    ELSE IF \E k \in DOMAIN entries : ~data_keys_ok(entries[k].data)
    THEN [exc |-> "TypeError", json |-> <<>>, out |-> entries_out(entries)]
    ELSE [exc |-> None,
          json |-> [filename |-> path,
                    available_sheets |-> names,
                    sheets |-> sheets_json(entries, names)],
          out |-> entries_out(entries)]

\* After load_workbook: its exception, or the loop and the result.
all_sheets_loaded(l, path, file) ==
    IF l.exc # None
    THEN [exc |-> l.exc, json |-> <<>>, out |-> <<>>]
    ELSE all_sheets_result(sheet_entries(file, sheetnames(l.wb)), sheetnames(l.wb), path)

\* The try block of read_all_sheets_to_json.
read_all_sheets_to_json_try(path, file) ==
    all_sheets_loaded(load_workbook(file), path, file)

\* except Exception as e: return json.dumps(error_result, ...)
all_sheets_except(r, path) ==
    IF r.exc # None
    THEN [exc |-> None,
          json |-> [error |-> "Error reading all sheets to JSON",
                    filename |-> path],
          out |-> r.out]
    ELSE r

\* read_all_sheets_to_json(filename): try block plus "except Exception".
read_all_sheets_to_json(path, file) ==
    all_sheets_except(read_all_sheets_to_json_try(path, file), path)

(***************************************************************************)
(* list_sheets                                                             *)
(***************************************************************************)
\* After load_workbook: return wb.sheetnames, or print and return [].
listed(l) ==
    IF l.exc # None
    THEN [exc |-> None, sheets |-> <<>>,
          out |-> <<[kind |-> "error_listing", exc |-> l.exc]>>]
    ELSE [exc |-> None, sheets |-> sheetnames(l.wb), out |-> <<>>]

\* list_sheets(filename)
list_sheets(file) == listed(load_workbook(file))

(***************************************************************************)
(* read_xlsx_file                                                          *)
(***************************************************************************)
PyTrue == "True"
PyFalse == "False"

RECURSIVE CellLines(_, _)
\* for col_num, cell_value in enumerate(row, 1): if cell_value is not None: print
CellLines(row, col_num) ==
    IF col_num > Len(row) THEN <<>>
    ELSE (IF row[col_num] # None
          THEN <<[kind |-> "cell", col_num |-> col_num, value |-> row[col_num]]>>
          ELSE <<>>) \o CellLines(row, col_num + 1)

\* "if not any(row): continue" of the row loops
SkipRow(row) == ~PyAny(row)

RECURSIVE RowLines(_, _)
\* for row_num, row in enumerate(sheet.iter_rows(values_only=True), 1): ...
RowLines(rows, row_num) ==
    IF row_num > Len(rows) THEN <<>>
    ELSE (IF SkipRow(rows[row_num]) THEN <<>>
          ELSE <<[kind |-> "row", row_num |-> row_num]>>
               \o CellLines(rows[row_num], 1)
               \o <<[kind |-> "dashes"]>>)
         \o RowLines(rows, row_num + 1)

\* The four lines printed before the rows.
HeaderBlock(path, sheet) ==
    << [kind |-> "reading", filename |-> path],
       [kind |-> "sheet_name", title |-> sheet.title],
       [kind |-> "dimensions", rows |-> Len(sheet.rows), cols |-> Len(sheet.rows[1])],
       [kind |-> "rule"] >>

\* After sheet selection: the not-found return, or the printed sheet.
file_selected(sel, wb, path, name) ==
    IF ~sel.found
    THEN [exc |-> None, ret |-> PyFalse, out |-> <<NotFoundLine(name, wb)>>]
    ELSE [exc |-> None, ret |-> PyTrue,
          out |-> HeaderBlock(path, sel.sheet) \o RowLines(sel.sheet.rows, 1)]

\* After load_workbook: its exception, or the selection and what follows.
file_loaded(l, path, name) ==
    IF l.exc # None
    THEN [exc |-> l.exc, ret |-> None, out |-> <<>>]
    ELSE file_selected(SelectSheet(l.wb, name), l.wb, path, name)

\* The try block of read_xlsx_file.
read_xlsx_file_try(path, file, name) == file_loaded(load_workbook(file), path, name)

\* except FileNotFoundError: ...; except Exception as e: ...
file_except(r, path) ==
    IF r.exc = "FileNotFoundError"
    THEN [exc |-> None, ret |-> PyFalse,
          out |-> <<[kind |-> "error_file_not_found", filename |-> path]>>]
    ELSE IF r.exc # None
    THEN [exc |-> None, ret |-> PyFalse,
          out |-> <<[kind |-> "error_reading", exc |-> r.exc]>>]
    ELSE r

\* read_xlsx_file(filename, sheet_name): try block plus the two except clauses.
read_xlsx_file(path, file, name) ==
    file_except(read_xlsx_file_try(path, file, name), path)

(***************************************************************************)
(* convert_xlsx_to_csv                                                     *)
(***************************************************************************)
\* A field as csv.writer writes it: None became '' and the rest is str(cell).
csv_field(cell) ==
    CASE cell = None -> ""
      [] cell = Zero -> "0"
      [] cell = DateV -> "str(<datetime>)"
      [] OTHER -> cell

\* [cell if cell is not None else '' for cell in row], written by writerow
csv_record(row) == [kind |-> "csv", fields |-> [k \in DOMAIN row |-> csv_field(row[k])]]

RECURSIVE CsvRecords(_)
\* for row in sheet.iter_rows(values_only=True): if not any(row): continue; writerow
CsvRecords(rows) ==
    IF rows = <<>> THEN <<>>
    ELSE (IF SkipRow(Head(rows)) THEN <<>> ELSE <<csv_record(Head(rows))>>)
         \o CsvRecords(Tail(rows))

\* open(output_file, 'w', ...): the file truncated, or OSError.
open_w(f) ==
    IF f.kind = "unopenable"
    THEN [exc |-> "OSError", file |-> f]
    ELSE [exc |-> None, file |-> [kind |-> "present", content |-> <<>>]]

\* f.write / csv_writer.writerow on the open file
write_to(f, lines) == [kind |-> f.kind, content |-> f.content \o lines]

\* with open(output_file, 'w', ...) as csvfile: the rows written, or OSError.
csv_opened(o, sheet, output, f) ==
    IF o.exc # None
    THEN [exc |-> o.exc, ret |-> None, out |-> <<>>, file |-> f]
    ELSE [exc |-> None, ret |-> output,
          out |-> <<[kind |-> "converted", title |-> sheet.title,
                     output_file |-> output]>>,
          file |-> write_to(o.file, CsvRecords(sheet.rows))]

\* After sheet selection: not found, "if output_file:" to the file, else stdout.
csv_selected(sel, wb, name, output, f) ==
    IF ~sel.found
    THEN [exc |-> None, ret |-> PyFalse, out |-> <<NotFoundLine(name, wb)>>, file |-> f]
    ELSE IF Truthy(output)
    THEN csv_opened(open_w(f), sel.sheet, output, f)
    ELSE [exc |-> None, ret |-> PyTrue, out |-> CsvRecords(sel.sheet.rows), file |-> f]

\* After load_workbook: its exception, or the selection and what follows.
csv_loaded(l, name, output, f) ==
    IF l.exc # None
    THEN [exc |-> l.exc, ret |-> None, out |-> <<>>, file |-> f]
    ELSE csv_selected(SelectSheet(l.wb, name), l.wb, name, output, f)

\* The try block of convert_xlsx_to_csv; f is the file output_file names.
convert_xlsx_to_csv_try(file, name, output, f) ==
    csv_loaded(load_workbook(file), name, output, f)

\* except Exception as e: print(...); return False
csv_except(r) ==
    IF r.exc # None
    THEN [exc |-> None, ret |-> PyFalse,
          out |-> r.out \o <<[kind |-> "error_converting", exc |-> r.exc]>>,
          file |-> r.file]
    ELSE r

\* convert_xlsx_to_csv(filename, sheet_name, output_file): plus "except Exception".
convert_xlsx_to_csv(file, name, output, f) ==
    csv_except(convert_xlsx_to_csv_try(file, name, output, f))

(***************************************************************************)
(* Inputs: files on disk, output files, arguments                          *)
(***************************************************************************)
\* Cell values of row 1 and of the rows after it, per specification.
TabHeaderVals == {None, EmptyStr, "A"}
TabDataVals == {None, Zero, "x"}
JsonHeaderVals == {None, EmptyStr, "A", DateV}
JsonDataVals == {None, Zero, "x", "y"}
RenderFirstVals == {None, "x"}
RenderDataVals == {None, Zero, "x"}

\* The grids of r rows and c columns: row 1 over hv, the rows after it over dv.
GridsOf(r, c, hv, dv) ==
    { <<h>> \o d : h \in [1..c -> hv], d \in [1..(r - 1) -> [1..c -> dv]] }

Grids(hv, dv) == UNION { GridsOf(r, c, hv, dv) : r \in 1..MaxRows, c \in 1..MaxCols }

\* One-column grids, for the sheets of a two-sheet workbook.
NarrowGrids(hv, dv) == UNION { GridsOf(r, 1, hv, dv) : r \in 1..MaxRows }

Sheet(title, rows) == [title |-> title, rows |-> rows]

\* Workbooks with the single sheet "S1", and with the sheets "S1" and "s1".
Books(hv, dv) ==
    { [sheets |-> <<Sheet("S1", g)>>, active |-> 1] : g \in Grids(hv, dv) }
    \cup
    { [sheets |-> <<Sheet("S1", g), Sheet("s1", h)>>, active |-> a] :
        g \in NarrowGrids(hv, dv), h \in NarrowGrids(hv, dv), a \in {1, 2} }

Disks(books) ==
    { [kind |-> "missing", wb |-> NoBook], [kind |-> "corrupt", wb |-> NoBook] }
    \cup { [kind |-> "ok", wb |-> b] : b \in books }

\* The sheet_name argument: omitted, empty, a title, a title in another case.
SheetArgs == {None, EmptyStr, "S1", "s1"}

NoFile == [kind |-> "absent", content |-> <<>>]

\* The file output_file names before the run: absent, present with earlier
\* content, or one that open() refuses (a directory, a missing parent, no rights).
OutFiles ==
    { NoFile,
      [kind |-> "present", content |-> <<[kind |-> "old"]>>],
      [kind |-> "unopenable", content |-> <<>>] }

(***************************************************************************)
(* Direct calls of the library functions                                   *)
(***************************************************************************)
CallerInit ==
    /\ argv = <<>>
    /\ pc = "caller"
    /\ i = 0
    /\ filename = "book.xlsx"
    /\ sheet_name = None
    /\ output_json = FALSE
    /\ all_sheets_json = FALSE
    /\ list_sheets_only = FALSE
    /\ csv_output = FALSE
    /\ output_file = None
    /\ fn = None
    /\ stdout = <<>>
    /\ ret = None
    /\ status = None

\* The call of f ends: r.out was printed, value came back or r.exc was raised.
Returns(f, r, value) ==
    /\ fn' = f
    /\ ret' = value
    /\ stdout' = stdout \o r.out
    /\ pc' = IF r.exc = None THEN "returned" ELSE "raised"

ReturnsTable(r) == Returns("read_xlsx_to_dict", r, [headers |-> r.headers, data |-> r.data])

CallReadXlsxToDict ==
    /\ pc = "caller"
    /\ \E name \in SheetArgs :
         /\ sheet_name' = name
         /\ ReturnsTable(read_xlsx_to_dict(disk, name))
    /\ UNCHANGED <<argv, i, filename, output_json, all_sheets_json,
                   list_sheets_only, csv_output, output_file, disk, outfile, status>>

ReturnsJson(f, r) == Returns(f, r, r.json)

CallReadXlsxToJson ==
    /\ pc = "caller"
    /\ \E name \in SheetArgs :
         /\ sheet_name' = name
         /\ ReturnsJson("read_xlsx_to_json", read_xlsx_to_json(filename, disk, name))
    /\ UNCHANGED <<argv, i, filename, output_json, all_sheets_json,
                   list_sheets_only, csv_output, output_file, disk, outfile, status>>

CallReadAllSheetsToJson ==
    /\ pc = "caller"
    /\ ReturnsJson("read_all_sheets_to_json", read_all_sheets_to_json(filename, disk))
    /\ UNCHANGED <<argv, i, filename, sheet_name, output_json, all_sheets_json,
                   list_sheets_only, csv_output, output_file, disk, outfile, status>>

ReturnsSheets(r) == Returns("list_sheets", r, r.sheets)

CallListSheets ==
    /\ pc = "caller"
    /\ ReturnsSheets(list_sheets(disk))
    /\ UNCHANGED <<argv, i, filename, sheet_name, output_json, all_sheets_json,
                   list_sheets_only, csv_output, output_file, disk, outfile, status>>

ReturnsFlag(f, r) == Returns(f, r, r.ret)

CallReadXlsxFile ==
    /\ pc = "caller"
    /\ \E name \in SheetArgs :
         /\ sheet_name' = name
         /\ ReturnsFlag("read_xlsx_file", read_xlsx_file(filename, disk, name))
    /\ UNCHANGED <<argv, i, filename, output_json, all_sheets_json,
                   list_sheets_only, csv_output, output_file, disk, outfile, status>>

ReturnsCsv(r) == outfile' = r.file /\ ReturnsFlag("convert_xlsx_to_csv", r)

CallConvertXlsxToCsv ==
    /\ pc = "caller"
    /\ \E name \in SheetArgs, output \in {None, "out.csv"} :
         /\ sheet_name' = name
         /\ output_file' = output
         /\ ReturnsCsv(convert_xlsx_to_csv(disk, name, output, outfile))
    /\ UNCHANGED <<argv, i, filename, output_json, all_sheets_json,
                   list_sheets_only, csv_output, disk, status>>

\* Tabular extraction called on every workbook of the bounds.
TabInit ==
    /\ CallerInit
    /\ disk \in Disks(Books(TabHeaderVals, TabDataVals))
    /\ outfile = NoFile

TabNext == CallReadXlsxToDict

SpecTab == TabInit /\ [][TabNext]_vars

\* The JSON renderers and the sheet listing called on every workbook.
JsonInit ==
    /\ CallerInit
    /\ disk \in Disks(Books(JsonHeaderVals, JsonDataVals))
    /\ outfile = NoFile

JsonNext == CallReadXlsxToJson \/ CallReadAllSheetsToJson \/ CallListSheets

SpecJson == JsonInit /\ [][JsonNext]_vars

\* The human-readable and CSV renderers called on every workbook.
RenderInit ==
    /\ CallerInit
    /\ disk \in Disks(Books(RenderFirstVals, RenderDataVals))
    /\ outfile \in OutFiles

RenderNext == CallReadXlsxFile \/ CallConvertXlsxToCsv

SpecRender == RenderInit /\ [][RenderNext]_vars

(***************************************************************************)
(* __main__                                                                *)
(***************************************************************************)
\* Python's sys.argv[k] and len(sys.argv)
Arg(k) == argv[k + 1]
Argc == Len(argv)

HelpFlags == {"--help", "-h"}

\* The tokens of a command line: the options, and three values.
Tokens ==
    {"--help", "-h", "--sheet", "--json", "--all-sheets-json", "--list-sheets",
     "--csv", "--output", "S1", EmptyStr, "out.txt"}

\* The first argument: a workbook path, or a request for help.
FirstTokens == {"book.xlsx", "--help", "-h"}

ArgLists ==
    { <<"read_xlsx.py">> } \cup
    { <<"read_xlsx.py", first>> \o rest :
        first \in FirstTokens,
        rest \in UNION { [1..n -> Tokens] : n \in 0..(MaxArgs - 1) } }

\* The files the command line finds on disk.
CliBooks ==
    { [sheets |-> <<Sheet("S1", << <<"A", None>>, <<"x", "y">>, <<None, None>> >>)>>,
       active |-> 1],
      [sheets |-> <<Sheet("s1", << <<"A">>, <<Zero>> >>),
                    Sheet("Data", << <<None>> >>)>>,
       active |-> 2] }

\* A file not opened yet.
Unopened == [kind |-> "unopened", content |-> <<>>]

optvars == <<filename, sheet_name, output_json, all_sheets_json, list_sheets_only,
             csv_output, output_file>>

\* show_help(): the usage text, as one block
show_help == <<[kind |-> "help"]>>

Init ==
    /\ argv \in ArgLists
    /\ pc = "start"
    /\ i = 0
    /\ filename = None
    /\ sheet_name = None
    /\ output_json = FALSE
    /\ all_sheets_json = FALSE
    /\ list_sheets_only = FALSE
    /\ csv_output = FALSE
    /\ output_file = None
    /\ fn = None
    /\ disk = [kind |-> "unopened", wb |-> NoBook]
    /\ outfile = Unopened
    /\ stdout = <<>>
    /\ ret = None
    /\ status = None

\* sys.exit(code), or the end of the script
Exit(code) ==
    /\ pc' = "exited"
    /\ status' = code

\* if len(sys.argv) >= 2 and sys.argv[1] in ["--help", "-h"]
HelpFirst ==
    /\ pc = "start"
    /\ Argc >= 2 /\ Arg(1) \in HelpFlags
    /\ stdout' = stdout \o show_help
    /\ Exit("0")
    /\ UNCHANGED <<argv, i, optvars, fn, disk, outfile, ret>>

\* if len(sys.argv) < 2
NoFilename ==
    /\ pc = "start"
    /\ ~(Argc >= 2 /\ Arg(1) \in HelpFlags)
    /\ Argc < 2
    /\ stdout' = stdout \o <<[kind |-> "usage"], [kind |-> "use_help"]>>
    /\ Exit("1")
    /\ UNCHANGED <<argv, i, optvars, fn, disk, outfile, ret>>

\* filename = sys.argv[1]; ...; i = 2
BeginParse ==
    /\ pc = "start"
    /\ ~(Argc >= 2 /\ Arg(1) \in HelpFlags)
    /\ ~(Argc < 2)
    /\ filename' = Arg(1)
    /\ sheet_name' = None
    /\ output_json' = FALSE
    /\ all_sheets_json' = FALSE
    /\ list_sheets_only' = FALSE
    /\ csv_output' = FALSE
    /\ output_file' = None
    /\ i' = 2
    /\ pc' = "parse"
    /\ UNCHANGED <<argv, fn, disk, outfile, stdout, ret, status>>

\* while i < len(sys.argv): arg = sys.argv[i]
InLoop == pc = "parse" /\ i < Argc

\* A plausible slip: help is honoured as the first argument only.
ParseHelp_unknown ==
    /\ InLoop
    /\ Arg(i) \in HelpFlags
    /\ stdout' = stdout \o <<[kind |-> "unknown_option", arg |-> Arg(i)],
                             [kind |-> "use_help"]>>
    /\ Exit("1")
    /\ UNCHANGED <<argv, i, optvars, fn, disk, outfile, ret>>

\* if arg in ["--help", "-h"]: show_help(); sys.exit(0)
ParseHelp ==
    /\ InLoop
    /\ Arg(i) \in HelpFlags
    /\ stdout' = stdout \o show_help
    /\ Exit("0")
    /\ UNCHANGED <<argv, i, optvars, fn, disk, outfile, ret>>

ParseSheet ==
    /\ InLoop
    /\ Arg(i) = "--sheet" /\ i + 1 < Argc
    /\ sheet_name' = Arg(i + 1)
    /\ i' = i + 2
    /\ UNCHANGED <<argv, pc, filename, output_json, all_sheets_json, list_sheets_only,
                   csv_output, output_file, fn, disk, outfile, stdout, ret, status>>

ParseJson ==
    /\ InLoop
    /\ Arg(i) = "--json"
    /\ output_json' = TRUE
    /\ i' = i + 1
    /\ UNCHANGED <<argv, pc, filename, sheet_name, all_sheets_json, list_sheets_only,
                   csv_output, output_file, fn, disk, outfile, stdout, ret, status>>

ParseAllSheetsJson ==
    /\ InLoop
    /\ Arg(i) = "--all-sheets-json"
    /\ all_sheets_json' = TRUE
    /\ i' = i + 1
    /\ UNCHANGED <<argv, pc, filename, sheet_name, output_json, list_sheets_only,
                   csv_output, output_file, fn, disk, outfile, stdout, ret, status>>

ParseListSheets ==
    /\ InLoop
    /\ Arg(i) = "--list-sheets"
    /\ list_sheets_only' = TRUE
    /\ i' = i + 1
    /\ UNCHANGED <<argv, pc, filename, sheet_name, output_json, all_sheets_json,
                   csv_output, output_file, fn, disk, outfile, stdout, ret, status>>

ParseCsv ==
    /\ InLoop
    /\ Arg(i) = "--csv"
    /\ csv_output' = TRUE
    /\ i' = i + 1
    /\ UNCHANGED <<argv, pc, filename, sheet_name, output_json, all_sheets_json,
                   list_sheets_only, output_file, fn, disk, outfile, stdout, ret, status>>

ParseOutput ==
    /\ InLoop
    /\ Arg(i) = "--output" /\ i + 1 < Argc
    /\ output_file' = Arg(i + 1)
    /\ i' = i + 2
    /\ UNCHANGED <<argv, pc, filename, sheet_name, output_json, all_sheets_json,
                   list_sheets_only, csv_output, fn, disk, outfile, stdout, ret, status>>

\* The arguments the if/elif chain of the loop accepts.
Recognized(k) ==
    \/ Arg(k) \in HelpFlags
    \/ Arg(k) \in {"--sheet", "--output"} /\ k + 1 < Argc
    \/ Arg(k) \in {"--json", "--all-sheets-json", "--list-sheets", "--csv"}

\* else: print(f"Unknown option: {arg}") ...; sys.exit(1)
ParseUnknown ==
    /\ InLoop
    /\ ~Recognized(i)
    /\ stdout' = stdout \o <<[kind |-> "unknown_option", arg |-> Arg(i)],
                             [kind |-> "use_help"]>>
    /\ Exit("1")
    /\ UNCHANGED <<argv, i, optvars, fn, disk, outfile, ret>>

\* The argument loop has ended: the mode chain runs.
LoopDone == pc = "parse" /\ ~(i < Argc)

RECURSIVE NumberedSheets(_, _)
\* for i, sheet in enumerate(sheets, 1): print(f"  {i}. {sheet}")
NumberedSheets(sheets, n) ==
    IF n > Len(sheets) THEN <<>>
    ELSE <<[kind |-> "sheet_item", n |-> n, title |-> sheets[n]]>>
         \o NumberedSheets(sheets, n + 1)

\* After list_sheets: the numbered titles, or "No sheets found or error".
PrintsSheets(file, r) ==
    /\ disk' = file
    /\ stdout' = stdout \o r.out \o
           (IF r.sheets # <<>>
            THEN <<[kind |-> "available", filename |-> filename]>>
                 \o NumberedSheets(r.sheets, 1)
            ELSE <<[kind |-> "no_sheets"]>>)

\* if list_sheets_only:
RunListSheets ==
    /\ LoopDone
    /\ list_sheets_only
    /\ \E file \in Disks(CliBooks) : PrintsSheets(file, list_sheets(file))
    /\ fn' = "list_sheets"
    /\ Exit("0")
    /\ UNCHANGED <<argv, i, optvars, outfile, ret>>

\* print(json_output)
PrintsJson(file, r) ==
    /\ disk' = file
    /\ stdout' = stdout \o r.out \o <<[kind |-> "json", json |-> r.json]>>

\* elif all_sheets_json: print(read_all_sheets_to_json(filename))
RunAllSheetsJson ==
    /\ LoopDone
    /\ ~list_sheets_only /\ all_sheets_json
    /\ \E file \in Disks(CliBooks) :
         PrintsJson(file, read_all_sheets_to_json(filename, file))
    /\ fn' = "read_all_sheets_to_json"
    /\ Exit("0")
    /\ UNCHANGED <<argv, i, optvars, outfile, ret>>

\* After convert_xlsx_to_csv: what it printed and what it left in the file.
ConvertsCsv(file, r) ==
    /\ disk' = file
    /\ outfile' = r.file
    /\ stdout' = stdout \o r.out

\* elif csv_output: convert_xlsx_to_csv(filename, sheet_name, output_file)
RunCsv ==
    /\ LoopDone
    /\ ~list_sheets_only /\ ~all_sheets_json /\ csv_output
    /\ \E file \in Disks(CliBooks), f \in OutFiles :
         ConvertsCsv(file, convert_xlsx_to_csv(file, sheet_name, output_file,
                                               IF Truthy(output_file) THEN f ELSE Unopened))
    /\ fn' = "convert_xlsx_to_csv"
    /\ Exit("0")
    /\ UNCHANGED <<argv, i, optvars, ret>>

\* f.write(json_output); print(f"JSON output written to: {output_file}")
WritesJson(file, o, r) ==
    /\ disk' = file
    /\ outfile' = write_to(o.file, <<[kind |-> "json", json |-> r.json]>>)
    /\ stdout' = stdout \o r.out \o
           <<[kind |-> "json_written", output_file |-> output_file]>>
    /\ Exit("0")

\* with open(output_file, 'w') as f: no try surrounds it, so an OSError ends
\* the script with a traceback and exit status 1.
OpensForJson(file, f, o) ==
    IF o.exc # None
    THEN /\ outfile' = f
         /\ pc' = "crashed"
         /\ status' = "1"
         /\ UNCHANGED <<disk, stdout>>
    ELSE WritesJson(file, o, read_xlsx_to_json(filename, file, sheet_name))

\* elif output_json: if output_file: ...
RunJsonToFile ==
    /\ LoopDone
    /\ ~list_sheets_only /\ ~all_sheets_json /\ ~csv_output /\ output_json
    /\ Truthy(output_file)
    /\ fn' = "read_xlsx_to_json"
    /\ \E file \in Disks(CliBooks), f \in OutFiles : OpensForJson(file, f, open_w(f))
    /\ UNCHANGED <<argv, i, optvars, ret>>

\* else: print(read_xlsx_to_json(filename, sheet_name))
RunJson ==
    /\ LoopDone
    /\ ~list_sheets_only /\ ~all_sheets_json /\ ~csv_output /\ output_json
    /\ ~Truthy(output_file)
    /\ \E file \in Disks(CliBooks) :
         PrintsJson(file, read_xlsx_to_json(filename, file, sheet_name))
    /\ fn' = "read_xlsx_to_json"
    /\ Exit("0")
    /\ UNCHANGED <<argv, i, optvars, outfile, ret>>

\* What read_xlsx_file printed; its return value is dropped.
PrintsFile(file, r) ==
    /\ disk' = file
    /\ stdout' = stdout \o r.out

\* else: read_xlsx_file(filename, sheet_name)
RunDefault ==
    /\ LoopDone
    /\ ~list_sheets_only /\ ~all_sheets_json /\ ~csv_output /\ ~output_json
    /\ \E file \in Disks(CliBooks) :
         PrintsFile(file, read_xlsx_file(filename, file, sheet_name))
    /\ fn' = "read_xlsx_file"
    /\ Exit("0")
    /\ UNCHANGED <<argv, i, optvars, outfile, ret>>

Next ==
    \/ HelpFirst \/ NoFilename \/ BeginParse
    \/ ParseHelp \/ ParseSheet \/ ParseJson \/ ParseAllSheetsJson
    \/ ParseListSheets \/ ParseCsv \/ ParseOutput \/ ParseUnknown
    \/ RunListSheets \/ RunAllSheetsJson \/ RunCsv \/ RunJsonToFile \/ RunJson
    \/ RunDefault

Spec == Init /\ [][Next]_vars

(***************************************************************************)
(* Claims                                                                  *)
(***************************************************************************)
\* The titles of the workbook on disk, the sheet a call is about, and the rows
\* of a sheet that hold a cell that is not absent.
Titles == { disk.wb.sheets[k].title : k \in 1..Len(disk.wb.sheets) }

NameGiven == sheet_name \notin {None, EmptyStr}

Resolves == disk.kind = "ok" /\ (NameGiven => sheet_name \in Titles)

ResolvedSheet ==
    IF NameGiven
    THEN disk.wb.sheets[CHOOSE k \in 1..Len(disk.wb.sheets) :
                            disk.wb.sheets[k].title = sheet_name]
    ELSE disk.wb.sheets[disk.wb.active]

HasValue(row) == \E c \in DOMAIN row : row[c] # None

Called(f) == fn = f /\ pc \in {"returned", "raised"}

\* C7: tabular extraction derives one header per column of row 1: the cell's
\* value when the cell is present and truthy, and Column_<n>, n the 1-indexed
\* column position, when the cell is absent or falsy.
C7_HeaderPerColumn ==
    (Called("read_xlsx_to_dict") /\ Resolves) =>
        LET row1 == ResolvedSheet.rows[1]
        IN  /\ pc = "returned"
            /\ Len(ret.headers) = Len(row1)
            /\ \A n \in 1..Len(row1) :
                 ret.headers[n] = IF row1[n] \in {None, EmptyStr, Zero}
                                  THEN "Column_" \o ToString(n)
                                  ELSE row1[n]

\* A sheet whose first row is ["A", ""] gave the headers ["A", "Column_2"].
C7_Witness ==
    /\ Called("read_xlsx_to_dict") /\ Resolves
    /\ ResolvedSheet.rows[1] = <<"A", EmptyStr>>
    /\ ret.headers = <<"A", "Column_2">>

\* The data rows tabular extraction keeps, in order.
KeptRows(sheet) == SelectSeq(SubSeq(sheet.rows, 2, Len(sheet.rows)), PyAny)

LastColumn(headers, label) ==
    CHOOSE n \in DOMAIN headers :
        /\ headers[n] = label
        /\ \A m \in DOMAIN headers : headers[m] = label => m <= n

\* C8: every record maps each distinct header label to the value of the last
\* column of its data row carrying that label, and has no other key.
C8_LastColumnWins ==
    (Called("read_xlsx_to_dict") /\ Resolves) =>
        LET kept == KeptRows(ResolvedSheet)
        IN  /\ Len(ret.data) = Len(kept)
            /\ \A j \in 1..Len(kept) :
                 /\ DOMAIN ret.data[j] = { ret.headers[n] : n \in DOMAIN ret.headers }
                 /\ \A label \in DOMAIN ret.data[j] :
                      ret.data[j][label] = kept[j][LastColumn(ret.headers, label)]

\* Headers ["A", "A"] and a data row ["x", 0] gave the record {"A": 0}.
C8_Witness ==
    /\ Called("read_xlsx_to_dict") /\ Resolves
    /\ ret.headers = <<"A", "A">>
    /\ Len(ret.data) >= 1
    /\ KeptRows(ResolvedSheet)[1] = <<"x", Zero>>
    /\ ret.data[1] = [A |-> Zero]

\* C9 as stated: tabular extraction never raises, and returns empty headers
\* and empty records on a loader failure and for every requested sheet name
\* that is not a sheet of the workbook.
C9_Original ==
    Called("read_xlsx_to_dict") =>
        /\ pc = "returned"
        /\ (disk.kind # "ok" \/ (sheet_name # None /\ sheet_name \notin Titles))
              => (ret.headers = <<>> /\ ret.data = <<>>)

\* C9 amended: tabular extraction never raises, and returns empty headers and
\* empty records on a loader failure and for every non-empty requested sheet
\* name that is not a sheet of the workbook.
C9_EmptyOnFailure ==
    Called("read_xlsx_to_dict") =>
        /\ pc = "returned"
        /\ (disk.kind # "ok" \/ (NameGiven /\ sheet_name \notin Titles))
              => (ret.headers = <<>> /\ ret.data = <<>>)

\* "s1" was requested of a workbook whose only sheet is "S1".
C9_Witness ==
    /\ Called("read_xlsx_to_dict")
    /\ disk.kind = "ok" /\ Titles = {"S1"} /\ sheet_name = "s1"
    /\ ret.headers = <<>> /\ ret.data = <<>>
    /\ stdout = <<[kind |-> "sheet_not_found", sheet_name |-> "s1",
                   available |-> <<"S1">>]>>

\* What the not-found path of the two renderers leaves behind: one diagnostic
\* naming the sheet and listing the workbook's sheets, the failure signal, no
\* other output, and an output file in the state it had before the call.
NotFoundOutcome ==
    /\ pc = "returned"
    /\ stdout = <<[kind |-> "sheet_not_found", sheet_name |-> sheet_name,
                   available |-> [k \in 1..Len(disk.wb.sheets) |->
                                     disk.wb.sheets[k].title]]>>
    /\ ret = PyFalse
    /\ outfile \in OutFiles

Rendered == Called("read_xlsx_file") \/ Called("convert_xlsx_to_csv")

\* C3 as stated: for every requested sheet name that is not a sheet of the
\* workbook the two renderers print one diagnostic, signal failure and
\* produce no output.
C3_Original ==
    (Rendered /\ disk.kind = "ok" /\ sheet_name # None /\ sheet_name \notin Titles)
        => NotFoundOutcome

\* C3 amended: for every non-empty requested sheet name that is not a sheet of
\* the workbook the two renderers print one diagnostic, signal failure and
\* produce no output, and the call leaves the output file as it was.
C3_NotFoundNoOutput ==
    /\ []((Rendered /\ disk.kind = "ok" /\ NameGiven /\ sheet_name \notin Titles)
            => NotFoundOutcome)
    /\ [][(disk.kind = "ok" /\ sheet_name' \notin {None, EmptyStr}
             /\ sheet_name' \notin Titles) => outfile' = outfile]_vars

\* The CSV renderer was asked for "s1" of a workbook whose only sheet is "S1",
\* with an output file that already had content.
C3_Witness ==
    /\ Called("convert_xlsx_to_csv")
    /\ disk.kind = "ok" /\ Titles = {"S1"} /\ sheet_name = "s1"
    /\ output_file = "out.csv"
    /\ outfile = [kind |-> "present", content |-> <<[kind |-> "old"]>>]
    /\ ret = PyFalse

\* The numbers of the rows that hold a cell that is not absent, in row order.
ValueRowNums(rows) ==
    SelectSeq([k \in 1..Len(rows) |-> k], LAMBDA k : HasValue(rows[k]))

\* The numbers of the "Row N:" blocks printed, in the order printed.
PrintedRowNums ==
    LET blocks == SelectSeq(stdout, LAMBDA line : line.kind = "row")
    IN  [k \in 1..Len(blocks) |-> blocks[k].row_num]

\* The CSV records written, to the output file or else to standard output.
CsvWritten ==
    SelectSeq(IF Truthy(output_file) THEN outfile.content ELSE stdout,
              LAMBDA line : line.kind = "csv")

\* C4: the two renderers skip a row if and only if every cell of it is absent:
\* each other row, also one holding only 0, False or "", yields its "Row N:"
\* block, respectively its CSV record, in row order.
C4_SkipsOnlyAbsentRows ==
    /\ (Called("read_xlsx_file") /\ Resolves) =>
          PrintedRowNums = ValueRowNums(ResolvedSheet.rows)
    /\ (Called("convert_xlsx_to_csv") /\ Resolves /\ ret # PyFalse) =>
          LET nums == ValueRowNums(ResolvedSheet.rows)
          IN  CsvWritten = [k \in 1..Len(nums) |-> csv_record(ResolvedSheet.rows[nums[k]])]

\* C1: the single-sheet JSON renderer never raises, returns an object with an
\* error field on every loader failure, and returns the success shape only
\* when the workbook was loaded and the sheet resolved.
C1_ErrorFieldOnFailure ==
    Called("read_xlsx_to_json") =>
        /\ pc = "returned"
        /\ disk.kind # "ok" => "error" \in DOMAIN ret
        /\ "error" \notin DOMAIN ret =>
              /\ Resolves
              /\ {"headers", "data", "row_count", "column_count"} \subseteq DOMAIN ret

\* C6: for a loadable workbook the all-sheets JSON has one sheets key per sheet
\* name, lists the names in declaration order, and gives each sheet the number
\* of data rows holding a cell that is not absent and the number of headers.
C6_AllSheetsCounts ==
    (Called("read_all_sheets_to_json") /\ disk.kind = "ok") =>
        /\ pc = "returned"
        /\ "sheets" \in DOMAIN ret
        /\ DOMAIN ret.sheets = Titles
        /\ ret.available_sheets =
              [k \in 1..Len(disk.wb.sheets) |-> disk.wb.sheets[k].title]
        /\ \A k \in 1..Len(disk.wb.sheets) :
             LET sheet == disk.wb.sheets[k]
                 entry == ret.sheets[sheet.title]
             IN  /\ entry.row_count =
                      Cardinality({ r \in 2..Len(sheet.rows) : HasValue(sheet.rows[r]) })
                 /\ entry.column_count = Len(entry.headers)

\* The process has ended: by sys.exit, at the end of the script, or by an
\* exception nobody caught.
Ended == pc \in {"exited", "crashed"}

\* The arguments parsed: there is a file argument and the loop accepted every
\* option, so the mode chain ran.
ArgsParsed == filename # None /\ i >= Argc

\* C2: when the arguments parse, no exception reaches the process boundary and
\* the process exits with status 0, in every mode and for every loader or I/O
\* failure.
C2_ExitZeroWhenParsed ==
    (Ended /\ ArgsParsed) => (pc = "exited" /\ status = "0")

PayloadLines(lines) == SelectSeq(lines, LAMBDA line : line.kind \in {"json", "csv"})

\* C5: with --output <file> and --csv, --json or --all-sheets-json the payload
\* goes to the file, written in full, and not to standard output.
C5_OutputToFile ==
    (pc = "exited" /\ ArgsParsed /\ ~list_sheets_only /\ Truthy(output_file)
       /\ (all_sheets_json \/ csv_output \/ output_json)) =>
        /\ PayloadLines(stdout) = <<>>
        /\ outfile.kind = "present" => PayloadLines(outfile.content) = outfile.content
        /\ (all_sheets_json \/ ~csv_output) =>
              /\ outfile.kind = "present"
              /\ Len(outfile.content) = 1
              /\ outfile.content[1].kind = "json"

\* What --help promises: nothing is loaded, rendered or opened, and the process
\* ends only by printing the usage text and exiting with status 0.
HelpOnly ==
    /\ disk.kind = "unopened"
    /\ outfile = Unopened
    /\ fn = None
    /\ Ended => (pc = "exited" /\ status = "0" /\ stdout = <<[kind |-> "help"]>>)

\* C10 as stated: --help or -h anywhere after the program name prints the usage
\* text and exits with status 0, skipping all other processing.
C10_Original ==
    (\E k \in 1..(Argc - 1) : Arg(k) \in HelpFlags) => HelpOnly

RECURSIVE OptionPosition(_)
\* Position k of the command line is read as an option: it follows the file
\* path directly, or a flag read as an option, or --sheet or --output read as
\* an option and the value after it.
OptionPosition(k) ==
    \/ k = 2
    \/ /\ k > 2
       /\ OptionPosition(k - 1)
       /\ Arg(k - 1) \in {"--json", "--all-sheets-json", "--list-sheets", "--csv"}
    \/ /\ k > 3
       /\ OptionPosition(k - 2)
       /\ Arg(k - 2) \in {"--sheet", "--output"}

\* C10 amended: --help or -h as the first argument, or read as an option after
\* the file path (only recognized options and their values before it), prints
\* the usage text and exits with status 0, skipping all other processing.
C10_HelpWhenReached ==
    (\/ Argc >= 2 /\ Arg(1) \in HelpFlags
     \/ \E k \in 2..(Argc - 1) : OptionPosition(k) /\ Arg(k) \in HelpFlags)
        => HelpOnly

\* read_xlsx.py book.xlsx --sheet S1 --help printed the usage text and exited 0.
C10_Witness ==
    /\ argv = <<"read_xlsx.py", "book.xlsx", "--sheet", "S1", "--help">>
    /\ pc = "exited" /\ status = "0"
    /\ sheet_name = "S1"
    /\ stdout = <<[kind |-> "help"]>>

====
